---------------------------- MODULE Spec2Model ----------------------------
(***************************************************************************)
(* Model of src/electron/httpServer.ts: the HTTPS-to-renderer bridge.      *)
(*                                                                         *)
(* Every inbound HTTP request is given a request_id from a module-level    *)
(* counter, its promise resolver is stored in the module-level map         *)
(* pendingRequests, a 30 s timer is armed, and an 'http-request' event is  *)
(* sent to the renderer.  The renderer answers with 'http-response' ipc    *)
(* messages, which the ipc-message handler matches against the map.        *)
(*                                                                         *)
(* The program runs on one event loop.  Each action below is one macrotask *)
(* (an HTTP request reaching the app.all handler, an ipc message, a timer  *)
(* callback) or the promise continuation of a suspended handler, which     *)
(* the loop runs before it starts the next macrotask.                      *)
(***************************************************************************)
EXTENDS Integers, Sequences, FiniteSets, TLC

(***************************************************************************)
(* Bounds of the model.                                                    *)
(***************************************************************************)
MaxCalls == 2
MaxTime == 15000
TickStep == 15000

(***************************************************************************)
(* Program constants.                                                      *)
(***************************************************************************)
TIMEOUT == 30000

\* The forwarded HTTP requests, numbered in the order in which they reach the
\* app.all handler.
Calls == 1..MaxCalls
\* request_id values the renderer may put into an 'http-response': every id
\* the bridge can issue within the bounds, and one it never issues.
ResponseIds == 1..(MaxCalls + 1)
Channels == {"http-response", "other"}

NoEvent == [request_id |-> 0, status |-> 0, body |-> ""]
NoResponse == [status |-> 0, body |-> ""]
NoResolver == 0

\* status and body of the replies the renderer may produce
Payloads == {[status |-> 200, body |-> "ok"], [status |-> 404, body |-> "nf"]}

\* interface HttpResponseEvent
HttpResponseEvent ==
  {[request_id |-> i, status |-> p.status, body |-> p.body] : i \in ResponseIds, p \in Payloads}

\* HTTP methods and request targets (req.url, one character per element) of
\* the inbound requests.
Methods == {"GET", "HEAD", "POST", "OPTIONS"}

ManifestPath == <<"/", "m", "a", "n", "i", "f", "e", "s", "t", ".", "j", "s", "o", "n">>

Targets == {ManifestPath, <<"/", "f">>, <<"/", "f", "?", "x">>}

NoRequest == [method |-> "", target |-> <<>>]
NoRequestEvent == [method |-> "", path |-> <<>>, request_id |-> 0]

\* String(new Error('Request timeout'))
TimeoutError == "Error: Request timeout"
\* String(error) of the exception webContents.send throws
SendError == "TypeError: Object has been destroyed"

VARIABLES
  requestIdCounter,  \* let requestIdCounter
  pendingRequests,   \* const pendingRequests: request_id -> resolver (the call owning it)
  pc,                \* per call: "idle" (not yet received), "awaiting", "done"
  request_id,        \* per call: const request_id of its handler (0 before)
  registered,        \* per call: time at which setTimeout was called
  promise,           \* per call: "none", "pending", "fulfilled", "rejected"
  promiseValue,      \* per call: the HttpResponseEvent the promise was resolved with
  promiseError,      \* per call: the error the handler caught / the promise was rejected with
  timers,            \* calls whose setTimeout callback has not run yet
  httpRes,           \* per call: status and body written to the HTTP client
  writes,            \* per call: number of res.status(..).send(..) executed
  outbox,            \* request_ids of the 'http-request' events handed to webContents.send
  sendAttempts,      \* per call: number of webContents.send calls made for it
  channelOpen,       \* the renderer's webContents is alive
  startup,           \* position of startHttpServer
  now,               \* wall clock, ms
  effects,           \* per request_id: number of times its entry was resolved or cancelled
  last               \* the handler that ran last, with its input

vars == <<requestIdCounter, pendingRequests, pc, request_id, registered, promise,
          promiseValue, promiseError, timers, httpRes, writes, outbox, sendAttempts,
          channelOpen, startup, now, effects, last>>

(***************************************************************************)
(* Map<number, resolver> operations.                                       *)
(***************************************************************************)
MapHas(m, k) == k \in DOMAIN m

MapGet(m, k) == IF k \in DOMAIN m THEN m[k] ELSE NoResolver

\* Mutant: the resolver is not stored.
MapSet_Dropped(m, k, v) == m

MapSet(m, k, v) == [x \in (DOMAIN m) \cup {k} |-> IF x = k THEN v ELSE m[x]]

MapDelete(m, k) == [x \in (DOMAIN m) \ {k} |-> m[x]]

EmptyMap == [x \in {} |-> NoResolver]

\* Mutant: the counter is read without being incremented.
NextCounter_Same(counter) == counter

\* requestIdCounter++ : the value left in the counter
NextCounter(counter) == counter + 1

\* JSON.stringify({ error: String(error) })
ErrorBody(error) == "{\"error\":\"" \o error \o "\"}"

\* The handler that ran, the call it belongs to (0: none) and the request_id
\* it was given or allocated (0: none).
\* req: the HTTP request it handled; ev: the requestEvent it passed to
\* webContents.send; res: the response it wrote itself, without forwarding.
Event(op, c, id) ==
  [op |-> op, call |-> c, id |-> id, req |-> NoRequest, ev |-> NoRequestEvent,
   res |-> NoResponse]

\* A resumed continuation of some handler is waiting in the microtask queue.
MicrotaskQueued == \E c \in Calls : pc[c] = "awaiting" /\ promise[c] # "pending"

ProcessAlive == startup # "exited"

Init ==
  /\ requestIdCounter = 1
  /\ pendingRequests = EmptyMap
  /\ pc = [c \in Calls |-> "idle"]
  /\ request_id = [c \in Calls |-> 0]
  /\ registered = [c \in Calls |-> 0]
  /\ promise = [c \in Calls |-> "none"]
  /\ promiseValue = [c \in Calls |-> NoEvent]
  /\ promiseError = [c \in Calls |-> ""]
  /\ timers = {}
  /\ httpRes = [c \in Calls |-> NoResponse]
  /\ writes = [c \in Calls |-> 0]
  /\ outbox = <<>>
  /\ sendAttempts = [c \in Calls |-> 0]
  /\ channelOpen = TRUE
  /\ startup = "generateCert"
  /\ now = 0
  /\ effects = [i \in ResponseIds |-> 0]
  /\ last = Event("init", 0, 0)

(***************************************************************************)
(* startHttpServer, lines 161-182: certificate, trust prompt, listen.      *)
(***************************************************************************)
\* await generateSelfSignedCert()
GenerateCert(ok) ==
  /\ startup = "generateCert"
  /\ startup' = IF ok THEN "ensureCertTrusted" ELSE "rejected"
  /\ last' = Event("generateCert", 0, 0)
  /\ UNCHANGED <<requestIdCounter, pendingRequests, pc, request_id, registered, promise,
                 promiseValue, promiseError, timers, httpRes, writes, outbox,
                 sendAttempts, channelOpen, now, effects>>

\* await ensureCertTrusted(certPath); then the executor of the server promise
\* runs https.createServer and srv.listen(3321, ...)
EnsureCertTrusted(ok) ==
  /\ startup = "ensureCertTrusted"
  /\ startup' = IF ok THEN "binding" ELSE "rejected"
  /\ last' = Event("ensureCertTrusted", 0, 0)
  /\ UNCHANGED <<requestIdCounter, pendingRequests, pc, request_id, registered, promise,
                 promiseValue, promiseError, timers, httpRes, writes, outbox,
                 sendAttempts, channelOpen, now, effects>>

\* What the callbacks of srv.listen / srv.on('error') leave startHttpServer in:
\* the listen callback only logs, so the server promise stays pending and
\* startHttpServer stays suspended at its await; EADDRINUSE exits the process;
\* any other error rejects the promise.
AfterBind(outcome) ==
  CASE outcome = "listening" -> "listening"
    [] outcome = "EADDRINUSE" -> "exited"
    [] OTHER -> "rejected"

Bind(outcome) ==
  /\ startup = "binding"
  /\ startup' = AfterBind(outcome)
  /\ last' = Event("bind", 0, 0)
  /\ UNCHANGED <<requestIdCounter, pendingRequests, pc, request_id, registered, promise,
                 promiseValue, promiseError, timers, httpRes, writes, outbox,
                 sendAttempts, channelOpen, now, effects>>

(***************************************************************************)
(* The middleware and routes an inbound request passes, in the order in    *)
(* which they are registered, lines 29-94.                                 *)
(***************************************************************************)
\* req.path: the request target up to its query string
Pathname(target) ==
  IF \E i \in 1..Len(target) : target[i] = "?"
  THEN SubSeq(target, 1,
              (CHOOSE i \in 1..Len(target) :
                 target[i] = "?" /\ \A j \in 1..(i - 1) : target[j] # "?") - 1)
  ELSE target

\* app.use(cors({...})) is given no preflightContinue: the middleware ends
\* every OPTIONS request itself, with its optionsSuccessStatus.
CorsEndsResponse(method) == method = "OPTIONS"

\* app.get(path, ...) also serves HEAD when the path has no HEAD route.
GetRouteMatches(method, target) ==
  method \in {"GET", "HEAD"} /\ Pathname(target) = ManifestPath

\* The handler that answers the request.
Route(method, target) ==
  CASE CorsEndsResponse(method) -> "cors"
    [] method = "OPTIONS" -> "options"
    [] GetRouteMatches(method, target) -> "manifest"
    [] OTHER -> "all"

\* res.json(manifest)
ManifestBody ==
  "{\"short_name\":\"BSV Desktop\",\"name\":\"BSV Desktop\",\"icons\":[{\"src\":\"favicon.ico\",\"sizes\":\"64x64 32x32 24x24 16x16\",\"type\":\"image/x-icon\"}],\"start_url\":\".\",\"display\":\"standalone\",\"theme_color\":\"#000000\",\"background_color\":\"#ffffff\",\"babbage\":{\"trust\":{\"name\":\"BSV Desktop\",\"note\":\"Allows basic payments between counterparties\",\"icon\":\"https://localhost:2121/favicon.ico\",\"publicKey\":\"0279be667ef9dcbbac55a06295ce870b07029bfcdb2dce28d959f2815b16f81798\"}}}"

\* What the handlers that answer without forwarding write.
LocalResponse(route, method) ==
  CASE route = "cors" -> [status |-> 204, body |-> ""]
    [] route = "options" -> [status |-> 200, body |-> "OK"]
    [] OTHER -> [status |-> 200, body |-> IF method = "HEAD" THEN "" ELSE ManifestBody]

\* A request answered by the cors middleware, app.options or app.get: none
\* of them reads or writes the module state.
LocalRequest(method, target) ==
  /\ startup = "listening"
  /\ ~MicrotaskQueued
  /\ Route(method, target) # "all"
  /\ last' = [Event("local", 0, 0) EXCEPT
                !.req = [method |-> method, target |-> target],
                !.res = LocalResponse(Route(method, target), method)]
  /\ UNCHANGED <<requestIdCounter, pendingRequests, pc, request_id, registered, promise,
                 promiseValue, promiseError, timers, httpRes, writes, outbox,
                 sendAttempts, channelOpen, startup, now, effects>>

\* const requestEvent (headers and body left out)
RequestEvent(method, target, id) ==
  [method |-> method, path |-> Pathname(target), request_id |-> id]

(***************************************************************************)
(* app.all('*', ...), lines 94-141 and, when send throws, 150-158: the     *)
(* synchronous part of the handler, up to its await.                       *)
(*                                                                         *)
(* webContents.send throws once the window is destroyed; sendOk lets it    *)
(* throw at other times too.  When it throws, the promise executor has     *)
(* already stored the resolver and armed the timer, and the catch block    *)
(* answers 500 without touching either.                                    *)
(***************************************************************************)
\* pendingRequests after the catch block ran for a send that threw: the
\* catch block does not touch the map.
TableAfterSendFailure(table, id) == table

\* Mutant: after the catch block the handler is still taken to await the
\* promise.
AfterCatch_StillAwaiting == "awaiting"

\* Where the handler is after its catch block: it has written its response
\* and returned.
AfterCatch == "done"

HandleRequest(c, method, target, sendOk) ==
  /\ startup = "listening"
  /\ ~MicrotaskQueued
  /\ Route(method, target) = "all"
  /\ pc[c] = "idle"
  /\ \A d \in Calls : d < c => pc[d] # "idle"
  /\ now <= MaxTime
  /\ LET id == requestIdCounter
         sent == channelOpen /\ sendOk
         table == MapSet(pendingRequests, id, c)
     IN
     /\ requestIdCounter' = NextCounter(requestIdCounter)
     /\ request_id' = [request_id EXCEPT ![c] = id]
     /\ promise' = [promise EXCEPT ![c] = "pending"]
     /\ timers' = timers \cup {c}
     /\ registered' = [registered EXCEPT ![c] = now]
     /\ sendAttempts' = [sendAttempts EXCEPT ![c] = @ + 1]
     /\ IF sent
        THEN /\ pendingRequests' = table
             /\ outbox' = Append(outbox, id)
             /\ pc' = [pc EXCEPT ![c] = "awaiting"]
             /\ UNCHANGED <<httpRes, writes>>
        ELSE /\ pendingRequests' = TableAfterSendFailure(table, id)
             /\ httpRes' = [httpRes EXCEPT ![c] =
                              [status |-> 500, body |-> ErrorBody(SendError)]]
             /\ writes' = [writes EXCEPT ![c] = @ + 1]
             /\ pc' = [pc EXCEPT ![c] = AfterCatch]
             /\ UNCHANGED outbox
     /\ last' = [Event(IF sent THEN "request" ELSE "request-send-failed", c, id) EXCEPT
                   !.req = [method |-> method, target |-> target],
                   !.ev = RequestEvent(method, target, id)]
  /\ UNCHANGED <<promiseValue, promiseError, channelOpen, startup, now, effects>>

(***************************************************************************)
(* mainWindow.webContents.on('ipc-message', ...), lines 82-91.             *)
(***************************************************************************)
\* Mutant: the reply is matched to the oldest pending entry, not to its own.
Resolver_Oldest(table, response) ==
  IF DOMAIN table = {} THEN NoResolver
  ELSE table[CHOOSE k \in DOMAIN table : \A j \in DOMAIN table : k <= j]

\* pendingRequests.get(typedResponse.request_id)
Resolver(table, response) == MapGet(table, response.request_id)

\* Mutant: the entry is left in the map after its resolver ran.
TableAfterResolve_Kept(table, response) == table

\* pendingRequests.delete(typedResponse.request_id)
TableAfterResolve(table, response) == MapDelete(table, response.request_id)

\* resolver(typedResponse): resolve() of the promise of call c
Resolve(c, response) ==
  IF promise[c] = "pending"
  THEN /\ promise' = [promise EXCEPT ![c] = "fulfilled"]
       /\ promiseValue' = [promiseValue EXCEPT ![c] = response]
  ELSE UNCHANGED <<promise, promiseValue>>

IpcMessage(channel, response) ==
  /\ ProcessAlive
  /\ channelOpen
  /\ ~MicrotaskQueued
  /\ IF channel = "http-response" /\ Resolver(pendingRequests, response) # NoResolver
     THEN /\ Resolve(Resolver(pendingRequests, response), response)
          /\ pendingRequests' = TableAfterResolve(pendingRequests, response)
          /\ effects' = [effects EXCEPT ![response.request_id] = @ + 1]
     ELSE UNCHANGED <<promise, promiseValue, pendingRequests, effects>>
  /\ last' = Event(channel, 0, IF channel = "http-response" THEN response.request_id ELSE 0)
  /\ UNCHANGED <<requestIdCounter, pc, request_id, registered, promiseError, timers,
                 httpRes, writes, outbox, sendAttempts, channelOpen, startup, now>>

(***************************************************************************)
(* The setTimeout callback of call c, lines 129-134.  When the handler of  *)
(* c already left through its catch block (send failure), the rejection    *)
(* has no one awaiting it; the runtime is taken to report it and carry on. *)
(***************************************************************************)
\* Mutant: the callback is scheduled without its delay.
TimerDue_NoDelay(c) == now >= registered[c]

\* setTimeout(..., 30000): the callback may run once the delay has elapsed
TimerDue(c) == now >= registered[c] + TIMEOUT

\* Mutant: the test of the timer callback is inverted.
StillPending_Inverted(table, id) == ~MapHas(table, id)

\* pendingRequests.has(request_id)
StillPending(table, id) == MapHas(table, id)

\* Mutant: the timer callback clears the map instead of deleting its own key.
TableAfterTimeout_Clear(table, id) == EmptyMap

\* pendingRequests.delete(request_id)
TableAfterTimeout(table, id) == MapDelete(table, id)

\* reject(new Error('Request timeout'))
Reject(c) ==
  IF promise[c] = "pending"
  THEN /\ promise' = [promise EXCEPT ![c] = "rejected"]
       /\ promiseError' = [promiseError EXCEPT ![c] = TimeoutError]
  ELSE UNCHANGED <<promise, promiseError>>

TimerFire(c) ==
  /\ ProcessAlive
  /\ ~MicrotaskQueued
  /\ c \in timers
  /\ TimerDue(c)
  /\ timers' = timers \ {c}
  /\ IF StillPending(pendingRequests, request_id[c])
     THEN /\ pendingRequests' = TableAfterTimeout(pendingRequests, request_id[c])
          /\ Reject(c)
          /\ effects' = [effects EXCEPT ![request_id[c]] = @ + 1]
     ELSE UNCHANGED <<pendingRequests, promise, promiseError, effects>>
  /\ last' = Event("timer", c, request_id[c])
  /\ UNCHANGED <<requestIdCounter, pc, request_id, registered, promiseValue, httpRes,
                 writes, outbox, sendAttempts, channelOpen, startup, now>>

(***************************************************************************)
(* The continuation of `await responsePromise`, lines 141-158.  The        *)
(* renderer's status is one res.status accepts (see Payloads).             *)
(***************************************************************************)
\* res.status(httpResponse.status).send(httpResponse.body)
Forwarded(httpResponse) == [status |-> httpResponse.status, body |-> httpResponse.body]

\* res.status(500).send(JSON.stringify({ error: String(error) }))
Fallback(error) == [status |-> 500, body |-> ErrorBody(error)]

Resume(c) ==
  /\ ProcessAlive
  /\ pc[c] = "awaiting"
  /\ promise[c] # "pending"
  /\ httpRes' = [httpRes EXCEPT ![c] =
                   IF promise[c] = "fulfilled" THEN Forwarded(promiseValue[c])
                   ELSE Fallback(promiseError[c])]
  /\ writes' = [writes EXCEPT ![c] = @ + 1]
  /\ pc' = [pc EXCEPT ![c] = "done"]
  /\ last' = Event("resume", c, request_id[c])
  /\ UNCHANGED <<requestIdCounter, pendingRequests, request_id, registered, promise,
                 promiseValue, promiseError, timers, outbox, sendAttempts, channelOpen,
                 startup, now, effects>>

(***************************************************************************)
(* Environment: the clock, and the renderer's webContents going away.      *)
(***************************************************************************)
\* Time is followed up to MaxTime, and beyond it until every armed timer is due.
Tick ==
  /\ now < MaxTime \/ \E c \in timers : ~TimerDue(c)
  /\ now' = now + TickStep
  /\ last' = Event("tick", 0, 0)
  /\ UNCHANGED <<requestIdCounter, pendingRequests, pc, request_id, registered, promise,
                 promiseValue, promiseError, timers, httpRes, writes, outbox,
                 sendAttempts, channelOpen, startup, effects>>

\* The window is destroyed: from now on webContents.send throws and no
\* ipc-message is emitted.  The module registers no handler for it.
CloseChannel ==
  /\ ProcessAlive
  /\ ~MicrotaskQueued
  /\ channelOpen
  /\ channelOpen' = FALSE
  /\ last' = Event("close", 0, 0)
  /\ UNCHANGED <<requestIdCounter, pendingRequests, pc, request_id, registered, promise,
                 promiseValue, promiseError, timers, httpRes, writes, outbox,
                 sendAttempts, startup, now, effects>>

(***************************************************************************)
(* The function startHttpServer returns, lines 185-192.  It calls          *)
(* server.close and resolves when the listener has closed; this is what it *)
(* leaves in pendingRequests.  startHttpServer never gets to return it:    *)
(* the promise awaited at line 168 is never resolved.                      *)
(***************************************************************************)
TableAfterCleanup(table) == table

Next ==
  \/ \E ok \in BOOLEAN : GenerateCert(ok)
  \/ \E ok \in BOOLEAN : EnsureCertTrusted(ok)
  \/ \E outcome \in {"listening", "EADDRINUSE", "EACCES"} : Bind(outcome)
  \/ \E method \in Methods, target \in Targets : LocalRequest(method, target)
  \/ \E c \in Calls, method \in Methods, target \in Targets, sendOk \in BOOLEAN :
       HandleRequest(c, method, target, sendOk)
  \/ \E channel \in Channels, response \in HttpResponseEvent : IpcMessage(channel, response)
  \/ \E c \in Calls : TimerFire(c)
  \/ \E c \in Calls : Resume(c)
  \/ Tick
  \/ CloseChannel

Spec == Init /\ [][Next]_vars

\* Time passes, and the event loop does not stay idle while a timer callback
\* is due or a continuation is queued.
FairSpec ==
  /\ Spec
  /\ WF_vars(Tick)
  /\ WF_vars(\E c \in Calls : TimerFire(c))
  /\ WF_vars(\E c \in Calls : Resume(c))

(***************************************************************************)
(* Vocabulary of the properties.                                           *)
(***************************************************************************)
\* The 'http-request' event of call c was handed to the renderer.
Sent(c) == \E i \in 1..Len(outbox) : outbox[i] = request_id[c]

Deadline(c) == registered[c] + TIMEOUT

\* Call c has been answered with the status and body of a reply.
AnsweredByReply(c) == pc[c] = "done" /\ Sent(c) /\ promise[c] = "fulfilled"

\* Call c has been answered with the fallback status after its timer ran.
AnsweredByTimeout(c) == pc[c] = "done" /\ Sent(c) /\ promise[c] = "rejected"

\* Call c is suspended on its promise and nothing has settled it yet.
Suspended(c) == pc[c] = "awaiting" /\ promise[c] = "pending"

(***************************************************************************)
(* C1. Correlation correctness: a call that was assigned request_id N is   *)
(* completed only by a reply whose request_id is N, and the status and     *)
(* body written to its caller are that reply's, whatever the order in      *)
(* which the replies of concurrently pending calls arrive.                 *)
(***************************************************************************)
C1_CorrelationCorrect ==
  \A c \in Calls :
    /\ promise[c] = "fulfilled" => promiseValue[c].request_id = request_id[c]
    /\ AnsweredByReply(c) =>
         /\ httpRes[c].status = promiseValue[c].status
         /\ httpRes[c].body = promiseValue[c].body

\* Two calls were pending together and the later one was answered first.
C1_Witness ==
  \E a, b \in Calls :
    /\ request_id[a] < request_id[b]
    /\ Suspended(a)
    /\ MapHas(pendingRequests, request_id[a])
    /\ AnsweredByReply(b)
    /\ httpRes[b] = [status |-> 404, body |-> "nf"]

(***************************************************************************)
(* C2. At-most-once resolution: for every request_id at most one of        *)
(* {resolve by a reply, cancel by the timer} takes effect on its entry,    *)
(* and once one has, the id is never in the map again, so every later      *)
(* reply or timer for it finds no entry.  (The module has no drain.)       *)
(***************************************************************************)
C2_AtMostOnce ==
  \A id \in ResponseIds :
    /\ effects[id] <= 1
    /\ effects[id] = 1 => ~MapHas(pendingRequests, id)

\* A second reply for an id whose entry was already resolved has been delivered.
C2_Witness ==
  /\ last.op = "http-response"
  /\ effects[last.id] = 1
  /\ \E c \in Calls : request_id[c] = last.id /\ AnsweredByReply(c)

(***************************************************************************)
(* C3. Every forwarded request eventually receives an HTTP response, given *)
(* that due timers run and continuations are resumed: a call suspended on  *)
(* its promise is eventually answered, and an answered call carries either *)
(* the reply's status and body or status 500 with an error body.           *)
(* Checked under FairSpec.                                                 *)
(***************************************************************************)
C3_EventuallyAnswered ==
  \A c \in Calls :
    (pc[c] # "idle") ~>
      ( /\ pc[c] = "done"
        /\ writes[c] >= 1
        /\ \/ /\ promise[c] = "fulfilled"
              /\ httpRes[c] = [status |-> promiseValue[c].status,
                               body |-> promiseValue[c].body]
           \/ /\ httpRes[c].status = 500
              /\ httpRes[c].body \in {"{\"error\":\"Error: Request timeout\"}",
                                      "{\"error\":\"TypeError: Object has been destroyed\"}"} )

\* A call the renderer never answered has been answered by the bridge.
C3_Witness ==
  \E c \in Calls :
    /\ AnsweredByTimeout(c)
    /\ httpRes[c] = [status |-> 500, body |-> "{\"error\":\"Error: Request timeout\"}"]

(***************************************************************************)
(* C4 as stated.  Timeout boundary: a forwarded request whose matching     *)
(* reply is delivered strictly before its deadline completes with that     *)
(* reply's status and body; one whose reply never arrives completes with   *)
(* status 500 exactly once, at or after the deadline and never before it,  *)
(* and its entry is then out of the map.                                   *)
(***************************************************************************)
C4_AsStated ==
  [][\A c \in Calls :
       /\ \A r \in HttpResponseEvent :
            ( /\ r.request_id = request_id[c]
              /\ promise[c] = "pending"
              /\ now < Deadline(c)
              /\ IpcMessage("http-response", r) )
            => /\ promise'[c] = "fulfilled"
               /\ promiseValue'[c] = r
               /\ pc[c] = "awaiting"
       /\ (pc[c] # "done" /\ pc'[c] = "done" /\ promise[c] = "fulfilled")
            => /\ httpRes'[c] = [status |-> promiseValue[c].status,
                                 body |-> promiseValue[c].body]
               /\ writes'[c] = 1
       /\ (pc[c] # "done" /\ pc'[c] = "done" /\ promise[c] # "fulfilled")
            => /\ httpRes'[c].status = 500
               /\ writes'[c] = 1
               /\ now' >= registered'[c] + TIMEOUT
               /\ ~MapHas(pendingRequests', request_id'[c])
    ]_vars

(***************************************************************************)
(* C4 amended.  The same, for a forwarded request whose 'http-request'     *)
(* event was handed to the renderer (the send did not throw): a matching   *)
(* reply delivered strictly before the deadline while the call is          *)
(* suspended settles it with that reply, and the call is then answered     *)
(* with that status and body; a call that is not settled by a reply is     *)
(* answered with status 500 exactly once, at or after its deadline, with   *)
(* its entry removed from the map.                                         *)
(***************************************************************************)
C4_TimeoutBoundary ==
  [][\A c \in Calls :
       /\ \A r \in HttpResponseEvent :
            ( /\ r.request_id = request_id[c]
              /\ Suspended(c)
              /\ now < Deadline(c)
              /\ IpcMessage("http-response", r) )
            => /\ promise'[c] = "fulfilled"
               /\ promiseValue'[c] = r
       /\ (pc[c] = "awaiting" /\ pc'[c] = "done" /\ promise[c] = "fulfilled")
            => /\ httpRes'[c] = [status |-> promiseValue[c].status,
                                 body |-> promiseValue[c].body]
               /\ writes'[c] = 1
       /\ (pc[c] = "awaiting" /\ pc'[c] = "done" /\ promise[c] # "fulfilled")
            => /\ httpRes'[c].status = 500
               /\ writes'[c] = 1
               /\ now' >= Deadline(c)
               /\ ~MapHas(pendingRequests', request_id[c])
       /\ (Suspended(c) /\ promise'[c] = "rejected")
            => /\ now >= Deadline(c)
               /\ ~MapHas(pendingRequests', request_id[c])
    ]_vars

\* One call has been answered by its reply before its deadline, another by
\* the timeout after its own.
C4_Witness ==
  \E a, b \in Calls :
    /\ AnsweredByTimeout(a)
    /\ httpRes[a].status = 500
    /\ now >= Deadline(a)
    /\ AnsweredByReply(b)
    /\ httpRes[b].status = 200
    /\ now < Deadline(b)

(***************************************************************************)
(* C5. Shutdown drains cleanly: when the channel to the renderer closes    *)
(* while requests are pending, all their entries are removed and all their *)
(* callers are failed at once, without waiting for the 30 s timers.        *)
(***************************************************************************)
C5_ShutdownDrains ==
  last.op = "close" =>
    /\ pendingRequests = EmptyMap
    /\ \A c \in Calls : ~Suspended(c)

(***************************************************************************)
(* C6. Teardown drains: running the teardown operation while requests are  *)
(* pending leaves the pending map empty.                                   *)
(***************************************************************************)
C6_TeardownDrains == TableAfterCleanup(pendingRequests) = EmptyMap

(***************************************************************************)
(* C7. Identifier uniqueness: the first request gets id 1, and every       *)
(* accepted request gets an id strictly greater than every id issued       *)
(* before it, whatever became of the earlier requests; the counter stays   *)
(* above every issued id.                                                  *)
(***************************************************************************)
C7_IdsStrictlyIncrease ==
  [][\A c \in Calls :
       (pc[c] = "idle" /\ pc'[c] # "idle") =>
         /\ request_id'[c] >= 1
         /\ (\A d \in Calls : pc[d] = "idle") => request_id'[c] = 1
         /\ \A d \in Calls : pc[d] # "idle" => request_id'[c] > request_id[d]
         /\ requestIdCounter' > request_id'[c]
    ]_vars

\* A request was accepted after the entry of an earlier one had left the map.
C7_Witness ==
  \E a, b \in Calls :
    /\ pc[a] = "done"
    /\ request_id[a] = 1
    /\ ~MapHas(pendingRequests, 1)
    /\ last.op = "request"
    /\ last.call = b
    /\ request_id[b] = 2

(***************************************************************************)
(* C8. Stale or unmatched replies are dropped without effect: a reply      *)
(* whose request_id is not in the pending map changes neither the map nor  *)
(* any call's promise or HTTP response, and a request that is accepted     *)
(* later starts unresolved, whatever replies came before it.               *)
(***************************************************************************)
C8_StaleDropped ==
  [][/\ \A r \in HttpResponseEvent :
          (~MapHas(pendingRequests, r.request_id) /\ IpcMessage("http-response", r))
          => UNCHANGED <<pendingRequests, promise, promiseValue, promiseError, pc,
                         httpRes, writes, timers, requestIdCounter, outbox>>
     /\ \A c \in Calls :
          (pc[c] = "idle" /\ pc'[c] = "awaiting")
          => /\ promise'[c] = "pending"
             /\ promiseValue'[c] = NoEvent
             /\ MapGet(pendingRequests', request_id'[c]) = c
    ]_vars

\* A reply for the id the next request will get was delivered while another
\* request was pending.
C8_Witness ==
  /\ last.op = "http-response"
  /\ last.id = requestIdCounter
  /\ \E c \in Calls : Suspended(c) /\ MapHas(pendingRequests, request_id[c])

UnchangedFor(b) ==
  /\ pc'[b] = pc[b]
  /\ request_id'[b] = request_id[b]
  /\ registered'[b] = registered[b]
  /\ promise'[b] = promise[b]
  /\ promiseValue'[b] = promiseValue[b]
  /\ promiseError'[b] = promiseError[b]
  /\ httpRes'[b] = httpRes[b]
  /\ writes'[b] = writes[b]
  /\ (b \in timers') = (b \in timers)
  /\ pc[b] # "idle" =>
       MapGet(pendingRequests', request_id[b]) = MapGet(pendingRequests, request_id[b])

FailureOf(a) ==
  \/ last'.op = "timer" /\ last'.call = a
  \/ last'.op = "request-send-failed" /\ last'.call = a
  \/ last'.op = "resume" /\ last'.call = a /\ promise[a] = "rejected"

C10_FailureIsolation ==
  [][/\ \A a, b \in Calls : (a # b /\ FailureOf(a)) => UnchangedFor(b)
     /\ (last'.op = "http-response" /\ ~MapHas(pendingRequests, last'.id))
          => \A b \in Calls : UnchangedFor(b)
     /\ \A b \in Calls, r \in HttpResponseEvent :
          (r.request_id = request_id[b] /\ Suspended(b) /\ IpcMessage("http-response", r))
          => promise'[b] = "fulfilled" /\ promiseValue'[b] = r
    ]_vars

\* A's timer has just cancelled A while B is still pending.
C10_Witness ==
  \E a, b \in Calls :
    /\ a # b
    /\ last.op = "timer"
    /\ last.call = a
    /\ promise[a] = "rejected"
    /\ Suspended(b)
    /\ MapGet(pendingRequests, request_id[b]) = b

(***************************************************************************)
(* C11  Local routes are never forwarded.  A request that is OPTIONS on    *)
(* any path, or GET on /manifest.json, is answered by the server itself    *)
(* with status 200, registers no entry and sends no RequestEvent; every    *)
(* other request is forwarded: it registers one entry under a fresh id and *)
(* hands one RequestEvent with that id to webContents.send.                *)
(***************************************************************************)
IsLocalRoute(req) ==
  \/ req.method = "OPTIONS"
  \/ req.method = "GET" /\ Pathname(req.target) = ManifestPath

C11_LocalRoutes ==
  last.req # NoRequest =>
    IF IsLocalRoute(last.req)
    THEN /\ last.op = "local"
         /\ last.res.status = 200
         /\ last.ev = NoRequestEvent
    ELSE /\ last.op \in {"request", "request-send-failed"}
         /\ last.ev.request_id = last.id
         /\ last.res = NoResponse

(***************************************************************************)
(* C12  Per-request state machine.  A forwarded request moves only along   *)
(* Created -> Sent -> one of Resolved, TimedOut, ChannelClosed (Created is *)
(* passed inside the handler's synchronous part; a request whose send      *)
(* threw counts as ChannelClosed); the end states are terminal, and once   *)
(* the caller has been answered the request's pending entry is not touched *)
(* again: no later step removes it, calls its resolver or rejects its      *)
(* promise.                                                                *)
(***************************************************************************)
RequestState(c) ==
  CASE pc[c] = "idle" -> "None"
    [] pc[c] # "idle" /\ ~Sent(c) -> "ChannelClosed"
    [] pc[c] # "idle" /\ Sent(c) /\ promise[c] = "fulfilled" -> "Resolved"
    [] pc[c] # "idle" /\ Sent(c) /\ promise[c] = "rejected" -> "TimedOut"
    [] OTHER -> "Sent"

RequestMoves ==
  {<<"None", "Sent">>, <<"None", "ChannelClosed">>, <<"Sent", "Resolved">>,
   <<"Sent", "TimedOut">>, <<"Sent", "ChannelClosed">>}

\* The pending entry of call c: its resolver while it is in the table.
EntryOf(c) ==
  IF MapHas(pendingRequests, request_id[c])
  THEN MapGet(pendingRequests, request_id[c])
  ELSE NoResolver

C12_StateMachine ==
  [][\A c \in Calls :
       /\ \/ RequestState(c)' = RequestState(c)
          \/ <<RequestState(c), RequestState(c)'>> \in RequestMoves
       /\ pc[c] = "done" =>
            /\ EntryOf(c)' = EntryOf(c)
            /\ promise'[c] = promise[c]]_vars

(***************************************************************************)
(* C13  Startup completes and provides teardown.  Once the certificate     *)
(* steps have succeeded and the listener has bound its port,               *)
(* startHttpServer eventually returns the cleanup function to its caller   *)
(* (the state "returned", from which the cleanup function can be invoked). *)
(***************************************************************************)
C13_StartupReturns == (startup = "listening") ~> (startup = "returned")

(***************************************************************************)
(* C14  The path field of the RequestEvent passed to webContents.send is   *)
(* the inbound request's target with its query string included verbatim:   *)
(* for a target path?query the forwarded path is path?query.               *)
(***************************************************************************)
C14_PathVerbatim ==
  last.op \in {"request", "request-send-failed"} => last.ev.path = last.req.target

(***************************************************************************)
(* C15  Every registered pending entry is eventually destroyed.            *)
(*                                                                         *)
(* As stated: in every state the table holds only ids registered less than *)
(* 30 s ago.                                                               *)
(***************************************************************************)
C15_AsStated ==
  \A id \in DOMAIN pendingRequests : now < registered[pendingRequests[id]] + TIMEOUT

(***************************************************************************)
(* C15  As the code has it: every entry in the table is the entry of a     *)
(* request whose own timer is still armed, so each entry is removed by a   *)
(* matching reply or, at the latest, when its timer callback runs, which   *)
(* is at or after 30 s from registration; and the table eventually becomes *)
(* and stays empty once no new requests arrive, the entries of requests    *)
(* whose send failed included.                                             *)
(***************************************************************************)
C15_EntriesDestroyed ==
  /\ [](\A id \in DOMAIN pendingRequests :
          /\ pendingRequests[id] \in timers
          /\ request_id[pendingRequests[id]] = id)
  /\ <>[](DOMAIN pendingRequests = {})

\* The entry of a request whose send failed has been removed by its timer,
\* which ran at its deadline or later.
C15_Witness ==
  \E c \in Calls :
    /\ last.op = "timer" /\ last.call = c
    /\ pc[c] = "done" /\ ~Sent(c) /\ promise[c] = "rejected"
    /\ now >= Deadline(c)
    /\ DOMAIN pendingRequests = {}

(***************************************************************************)
(* C16  The deadline timer is tied 1:1 to the pending entry's lifetime:    *)
(* in every state there is no armed timer for a request_id that is absent  *)
(* from the pending table (the timer is cancelled when a reply resolves    *)
(* the entry).                                                             *)
(***************************************************************************)
C16_NoDanglingTimer ==
  \A c \in timers : MapHas(pendingRequests, request_id[c])

(***************************************************************************)
(* C17  A deadline timer that fires after its request's entry was removed  *)
(* by a matching reply is a no-op: the step leaves the pending table as it *)
(* was (so it removes no other request's entry), rejects no promise and    *)
(* alters no delivered outcome, and writes no HTTP response.               *)
(***************************************************************************)
C17_LateTimerNoOp ==
  [][\A c \in Calls :
       (/\ c \in timers
        /\ c \notin timers'
        /\ promise[c] = "fulfilled"
        /\ ~MapHas(pendingRequests, request_id[c]))
       => UNCHANGED <<pendingRequests, promise, promiseValue, promiseError, effects,
                      httpRes, writes, pc>>]_vars

\* The timer of a request answered by its reply has just run, while another
\* request is still pending.
C17_Witness ==
  \E c \in Calls :
    /\ last.op = "timer" /\ last.call = c
    /\ AnsweredByReply(c)
    /\ httpRes[c].status \in {200, 404} /\ writes[c] = 1
    /\ \E d \in Calls : d # c /\ Suspended(d) /\ MapHas(pendingRequests, request_id[d])

(***************************************************************************)
(* C18  Register-before-send.  When the RequestEvent with request_id N has *)
(* been handed to webContents.send, the entry for N is in the pending      *)
(* table, and it stays there until a reply or the timer settles it: the    *)
(* handler allocates the id, registers and sends in one synchronous run,   *)
(* so a reply that arrives after the send and before the timer callback    *)
(* always finds its entry.                                                 *)
(***************************************************************************)
C18_RegisterBeforeSend ==
  \A c \in Calls :
    (Sent(c) /\ effects[request_id[c]] = 0) =>
      /\ MapHas(pendingRequests, request_id[c])
      /\ MapGet(pendingRequests, request_id[c]) = c
      /\ promise[c] = "pending"

\* A reply delivered some time after the send, before the deadline, has found
\* the entry and fulfilled the promise.
C18_Witness ==
  \E c \in Calls :
    /\ last.op = "http-response" /\ last.id = request_id[c]
    /\ Sent(c)
    /\ registered[c] < now /\ now < Deadline(c)
    /\ promise[c] = "fulfilled"
    /\ effects[request_id[c]] = 1

(***************************************************************************)
(* C19  At most one HTTP response is written for a forwarded request, over *)
(* every interleaving of replies, duplicate replies, timer firing and send *)
(* failure; a request answered 500 after a send failure is not answered    *)
(* again when its timer fires or a late reply arrives, and keeps that      *)
(* response.                                                               *)
(***************************************************************************)
C19_SingleResponse ==
  \A c \in Calls :
    /\ writes[c] <= 1
    /\ (pc[c] = "done" /\ ~Sent(c)) =>
         /\ writes[c] = 1
         /\ httpRes[c] = [status |-> 500, body |-> ErrorBody(SendError)]

\* A late reply has just resolved the promise of a request that was answered
\* 500 after its send failed.
C19_Witness ==
  \E c \in Calls :
    /\ last.op = "http-response" /\ last.id = request_id[c]
    /\ pc[c] = "done" /\ ~Sent(c)
    /\ promise[c] = "fulfilled"
    /\ writes[c] = 1 /\ httpRes[c].status = 500

(***************************************************************************)
(* C20  Outbound ordering: RequestEvents are handed to webContents.send in *)
(* strictly increasing request_id order.  The events the channel accepted  *)
(* are in increasing id order, the event of the send just attempted has an *)
(* id above all of them, and of two sent requests the one with the smaller *)
(* id was sent first, also while both are pending together.                *)
(***************************************************************************)
SendPosition(c) == CHOOSE i \in 1..Len(outbox) : outbox[i] = request_id[c]

C20_OutboundOrder ==
  /\ \A i, j \in 1..Len(outbox) : i < j => outbox[i] < outbox[j]
  /\ last.op \in {"request", "request-send-failed"} =>
       \A i \in 1..Len(outbox) : outbox[i] <= last.ev.request_id
  /\ \A a, b \in Calls :
       (Sent(a) /\ Sent(b) /\ request_id[a] < request_id[b]) =>
         SendPosition(a) < SendPosition(b)

\* Two requests are pending together, both sent.
C20_Witness ==
  \E a, b \in Calls :
    /\ a # b
    /\ Suspended(a) /\ Suspended(b)
    /\ Sent(a) /\ Sent(b)
    /\ Len(outbox) = 2

=============================================================================
